---- MODULE Spec2Model ----
(***************************************************************************)
(* A model of the server side of the smart-contract generator:             *)
(*   - withRetry, the retry loop around the outbound completion call       *)
(*     (src/src/api/services/openai.service.js),                           *)
(*   - classifyError and the AppError classes                              *)
(*     (src/src/api/middleware/error.middleware.js),                       *)
(*   - handleChat and generateCode with their Promise.race timeout guard   *)
(*     and the in-memory session store                                     *)
(*     (src/src/api/controllers/contract.controller.js).                   *)
(*                                                                         *)
(* JavaScript values are modelled as follows.  A message is a sequence of  *)
(* words; String.prototype.includes is the test for a contiguous run of    *)
(* words and toLowerCase maps every word to its lower-case form.  An       *)
(* absent (undefined) number is NoStatus, an absent string is "", and an   *)
(* absent boolean is "undefined" beside "true" and "false".                *)
(***************************************************************************)
EXTENDS Naturals, Sequences, FiniteSets, TLC

VARIABLES
  \* ---- withRetry (one call of it) ----
  retryAttempts,   \* the resolved retryAttempts option
  retryDelay,      \* the resolved retryDelay option, in milliseconds
  delay,           \* the delay of the backoff sleep in progress (0: none)
  attempt,         \* the loop variable
  rpc,             \* "call" | "wait" | "returned" | "thrown"
  lastError,       \* the variable lastError (NoError until a call failed)
  thrown,          \* what withRetry threw: "none" | "lastError" | "TypeError"
  rawCalls,        \* history: the number of invocations of operation()
  waits,           \* history: the number of backoff sleeps finished
  outcomes,        \* history: per raw call "ok" | "retryable" | "fatal"
  rawError,        \* history: what the latest raw call rejected with
  \* ---- classifyError (one application) ----
  cErr,            \* the error handed to classifyError
  cpc,             \* "input" | "done"
  cRes,            \* what classifyError did: [threw, err]
  eResp,           \* what errorMiddleware sent: the status and the JSON body
  \* ---- createChatCompletion (one call of it) and the client handle ----
  openai,          \* the module-level handle: "null" | "client"
  ccpc,            \* "idle" | "retrying" | "returned" | "thrown"
  ccErr,           \* the error createChatCompletion threw
  availability,    \* what checkAvailability returned last: "none" | "true" | "false"
  \* ---- configuration ----
  apiKey,          \* whether config.openaiApiKey is set
  nodeEnv,         \* NODE_ENV: "development" | "production"
  \* ---- the controller: sessionStore and the requests in flight ----
  conversations,   \* sessionStore.conversations: session id -> conversation
  phases,          \* sessionStore.phases
  languages,       \* sessionStore.languages
  lastActivity,    \* sessionStore.lastActivity
  now,             \* Date.now()
  req,             \* per request: its handler's position, locals and race
  \* ---- concurrent calls of createChatCompletion ----
  calls,           \* per call: its position, loop variable and history
  \* ---- the browser: APIService.fetchWithRetry, ChatService.callServerAPI ----
  fetchState,      \* one call of fetchWithRetry: its locals and history
  apiState         \* one call of callServerAPI: its locals and history

retryVars ==
  <<retryAttempts, retryDelay, delay, attempt, rpc, lastError, thrown, rawCalls, waits,
    outcomes, rawError>>
classifyVars == <<cErr, cpc, cRes, eResp>>
completionVars == <<openai, ccpc, ccErr, availability>>
configVars == <<apiKey, nodeEnv>>
storeVars == <<conversations, phases, languages, lastActivity>>
handlerVars == <<storeVars, now, req>>
restVars == <<calls, fetchState, apiState>>
vars == <<retryVars, classifyVars, handlerVars, completionVars, configVars, restVars>>

----------------------------------------------------------------------------
(* Bounds of the model *)

\* The largest retryAttempts value the configuration is given.
MaxRetryAttempts == 3

\* The largest configured retry delay, in milliseconds.
MaxRetryDelay == 1

\* The number of values Math.random() is drawn from.
RandomSteps == 3

\* The latest value of Date.now().
MaxTime == 2

\* The largest maxRetries fetchWithRetry is called with.
MaxFetchRetries == 3

----------------------------------------------------------------------------
(* JavaScript values *)

NoStatus == 0

Undefined == "undefined"

\* String.prototype.toLowerCase, word by word.
LowerWord(w) ==
  CASE w = "Not" -> "not"
    [] w = "Found" -> "found"
    [] w = "Timeout" -> "timeout"
    [] w = "Network" -> "network"
    [] OTHER -> w

toLowerCase(msg) == [i \in 1..Len(msg) |-> LowerWord(msg[i])]

\* String.prototype.includes: needle occurs in msg as a contiguous run.
includes(msg, needle) ==
  \E i \in 1..Len(msg) :
    /\ i + Len(needle) - 1 <= Len(msg)
    /\ SubSeq(msg, i, i + Len(needle) - 1) = needle

\* The messages errors carry in this model.
Messages ==
  { <<>>,
    <<"Request", "processing", "timed", "out">>,
    <<"Connection", "timeout">>,
    <<"Request", "Timeout">>,
    <<"network", "error">>,
    <<"not", "found">>,
    <<"Model", "Not", "Found">>,
    <<"rate", "limit", "exceeded">>,
    <<"Internal", "error">> }

----------------------------------------------------------------------------
(* Raw errors: what an operation, a handler or a middleware may throw *)

\* A raw error.  app is the AppError subclass the value is an instance of
\* ("" when it is no AppError); hasMessage is FALSE when the value has no
\* message property (a thrown string or plain object); hasOrig tells whether
\* it has an originalError property.
RawError(app, name, hasMessage, message, status, type, hasOrig, origName, origStatus) ==
  [app |-> app, name |-> name, hasMessage |-> hasMessage, message |-> message,
   status |-> status, type |-> type,
   hasOrig |-> hasOrig, origName |-> origName, origStatus |-> origStatus]

NoError == RawError("", "", FALSE, <<>>, NoStatus, "", FALSE, "", NoStatus)

Statuses == {NoStatus, 400, 401, 404, 429, 500, 501, 503}

ErrorTypes == {"", "server_error", "invalid_request_error"}

\* What the outbound call (the OpenAI client, the network) throws: Error
\* objects, with a message, no AppError, no originalError.
OperationErrors ==
  { RawError("", n, TRUE, m, s, t, FALSE, "", NoStatus) :
      n \in {"Error", "OpenAIError"}, m \in Messages, s \in Statuses, t \in ErrorTypes }

----------------------------------------------------------------------------
(* withRetry *)

retryableStatusCodes == {429, 500, 502, 503, 504}

retryableErrorTypes == {"rate_limit_exceeded", "timeout", "server_error"}

DefaultRetryAttempts == 3

\* An absent option or configuration value is the empty sequence, a present
\* one <<n>>.  The destructuring default applies to an absent option only;
\* the default expression is config.openai.retryAttempts || 3.
ResolveRetryAttempts(opt, cfg) ==
  IF opt # <<>> THEN opt[1]
  ELSE IF cfg # <<>> /\ cfg[1] # 0 THEN cfg[1]
  ELSE DefaultRetryAttempts

DefaultRetryDelay == 2000

\* retryDelay = config.openai.retryDelay || 2000, resolved like retryAttempts.
ResolveRetryDelay(opt, cfg) ==
  IF opt # <<>> THEN opt[1]
  ELSE IF cfg # <<>> /\ cfg[1] # 0 THEN cfg[1]
  ELSE DefaultRetryDelay

\* Math.random() returns one of the values rnd / RandomSteps, 0 <= rnd <
\* RandomSteps, so it is in [0, 1).
RandomDraws == 0..(RandomSteps - 1)

\* The factor 0.2 of the jitter is 1 / JitterDivisor.
JitterDivisor == 5

\* Delays are exact fractions over the denominator DelayScale: the value d
\* stands for d / DelayScale milliseconds.
DelayScale == JitterDivisor * RandomSteps

RECURSIVE Pow2(_)
\* Math.pow(2, a)
Pow2(a) == IF a = 0 THEN 1 ELSE 2 * Pow2(a - 1)

\* A faulty variant: the jitter is the whole of random * retryDelay.
Jitter_Whole(rnd, d) == JitterDivisor * rnd * d

\* jitter = 0.2 * Math.random() * retryDelay, over DelayScale.
Jitter(rnd, d) == rnd * d

\* delay = retryDelay * Math.pow(2, attempt) + jitter, over DelayScale.
BackoffDelay(a, d, rnd) == d * Pow2(a) * DelayScale + Jitter(rnd, d)

isRetryableStatus(error) ==
  error.status # NoStatus /\ error.status \in retryableStatusCodes

isRetryableType(error) ==
  error.type # "" /\ error.type \in retryableErrorTypes

\* Whether evaluating isRetryableError throws: error.message.includes is
\* reached (the || before it did not short-circuit) on an absent message.
isRetryableErrorThrows(error) ==
  /\ ~isRetryableStatus(error)
  /\ ~isRetryableType(error)
  /\ ~error.hasMessage

isRetryableError(error) ==
  \/ isRetryableStatus(error)
  \/ isRetryableType(error)
  \/ (error.hasMessage /\ includes(error.message, <<"timeout">>))
  \/ (error.hasMessage /\ includes(error.message, <<"network">>))

\* A faulty variant: the for statement stops one attempt early.
LoopCondition_Strict(a, n) == a < n

\* The condition of the for statement.
LoopCondition(a, n) == a <= n

\* A faulty variant: the last attempt is taken to be the one before it.
BreakCondition_OffByOne(a, n, error) == a + 1 >= n \/ ~isRetryableError(error)

\* A faulty variant: breaks only when both conditions hold.
BreakCondition_Both(a, n, error) == a >= n /\ ~isRetryableError(error)

\* A faulty variant: the last attempt is not recognised, so a sleep follows it.
BreakCondition_Late(a, n, error) == a > n \/ ~isRetryableError(error)

\* "Don't retry if this was the last attempt or error is not retryable".
BreakCondition(a, n, error) == a >= n \/ ~isRetryableError(error)

OutcomeOf(error) == IF isRetryableError(error) THEN "retryable" ELSE "fatal"

\* createChatCompletion passes retryAttempts: config.openai.retryAttempts
\* and retryDelay: config.openai.retryDelay.
RetryConfig ==
  /\ \E cfg \in {<<>>} \cup {<<n>> : n \in 0..MaxRetryAttempts} :
       retryAttempts = ResolveRetryAttempts(cfg, cfg)
  /\ \E cfg \in {<<>>} \cup {<<d>> : d \in 0..MaxRetryDelay} :
       retryDelay = ResolveRetryDelay(cfg, cfg)

RetryInit ==
  /\ RetryConfig
  /\ delay = 0
  /\ attempt = 0
  /\ rpc = IF LoopCondition(0, retryAttempts) THEN "call" ELSE "thrown"
  /\ lastError = NoError
  /\ thrown = "none"
  /\ rawCalls = 0
  /\ waits = 0
  /\ outcomes = <<>>
  /\ rawError = NoError

\* A faulty variant: the result is not returned at once; the loop goes on.
OperationSucceeds_NoReturn ==
  /\ rpc = "call"
  /\ rpc' = IF attempt < retryAttempts THEN "wait" ELSE "returned"
  /\ rawCalls' = rawCalls + 1
  /\ outcomes' = Append(outcomes, "ok")
  /\ rawError' = NoError
  /\ UNCHANGED <<retryAttempts, retryDelay, delay, attempt, lastError, thrown, waits>>
  /\ UNCHANGED <<classifyVars, handlerVars, completionVars, configVars, restVars>>

\* return await operation(): the operation fulfils.
OperationSucceeds ==
  /\ rpc = "call"
  /\ rpc' = "returned"
  /\ rawCalls' = rawCalls + 1
  /\ outcomes' = Append(outcomes, "ok")
  /\ rawError' = NoError
  /\ UNCHANGED <<retryAttempts, retryDelay, delay, attempt, lastError, thrown, waits>>
  /\ UNCHANGED <<classifyVars, handlerVars, completionVars, configVars, restVars>>

\* A faulty variant: lastError keeps the error of the first failed attempt.
OperationFails_KeepsFirst(error) ==
  /\ rpc = "call"
  /\ rawCalls' = rawCalls + 1
  /\ outcomes' = Append(outcomes, OutcomeOf(error))
  /\ lastError' = IF lastError = NoError THEN error ELSE lastError
  /\ rawError' = error
  /\ IF isRetryableErrorThrows(error)
       THEN rpc' = "thrown" /\ thrown' = "TypeError"
       ELSE IF BreakCondition(attempt, retryAttempts, error)
         THEN rpc' = "thrown" /\ thrown' = "lastError"
         ELSE rpc' = "wait" /\ thrown' = thrown
  /\ IF ~isRetryableErrorThrows(error) /\ ~BreakCondition(attempt, retryAttempts, error)
       THEN \E rnd \in RandomDraws : delay' = BackoffDelay(attempt, retryDelay, rnd)
       ELSE delay' = delay
  /\ UNCHANGED <<retryAttempts, retryDelay, attempt, waits>>
  /\ UNCHANGED <<classifyVars, handlerVars, completionVars, configVars, restVars>>

\* The operation rejects with error: the catch block, up to the break or the
\* await of the backoff sleep.
OperationFails(error) ==
  /\ rpc = "call"
  /\ rawCalls' = rawCalls + 1
  /\ outcomes' = Append(outcomes, OutcomeOf(error))
  /\ lastError' = error
  /\ rawError' = error
  /\ IF isRetryableErrorThrows(error)
       THEN rpc' = "thrown" /\ thrown' = "TypeError"
       ELSE IF BreakCondition(attempt, retryAttempts, error)
         THEN rpc' = "thrown" /\ thrown' = "lastError"
         ELSE rpc' = "wait" /\ thrown' = thrown
  /\ IF ~isRetryableErrorThrows(error) /\ ~BreakCondition(attempt, retryAttempts, error)
       THEN \E rnd \in RandomDraws : delay' = BackoffDelay(attempt, retryDelay, rnd)
       ELSE delay' = delay
  /\ UNCHANGED <<retryAttempts, retryDelay, attempt, waits>>
  /\ UNCHANGED <<classifyVars, handlerVars, completionVars, configVars, restVars>>

\* A faulty variant: the loop variable is not incremented.
BackoffElapses_NoIncrement ==
  /\ rpc = "wait"
  /\ waits' = waits + 1
  /\ attempt' = attempt
  /\ rpc' = "call"
  /\ delay' = 0
  /\ UNCHANGED <<retryAttempts, retryDelay, lastError, thrown, rawCalls, outcomes, rawError>>
  /\ UNCHANGED <<classifyVars, handlerVars, completionVars, configVars, restVars>>

\* The backoff sleep ends: attempt++ and the loop condition.
BackoffElapses ==
  /\ rpc = "wait"
  /\ waits' = waits + 1
  /\ attempt' = attempt + 1
  /\ delay' = 0
  /\ IF LoopCondition(attempt + 1, retryAttempts)
       THEN rpc' = "call" /\ thrown' = thrown
       ELSE rpc' = "thrown" /\ thrown' = "lastError"
  /\ UNCHANGED <<retryAttempts, retryDelay, lastError, rawCalls, outcomes, rawError>>
  /\ UNCHANGED <<classifyVars, handlerVars, completionVars, configVars, restVars>>

----------------------------------------------------------------------------
(* The AppError classes *)

\* The options / context object literals of the constructors: an absent
\* property is "" (a string) or "undefined" (a boolean).
Options(isOperational, code, context, retryable) ==
  [isOperational |-> isOperational, code |-> code, context |-> context,
   retryable |-> retryable]

Context(code, retryable, details) ==
  [code |-> code, retryable |-> retryable, details |-> details]

EmptyContext == Context("", Undefined, FALSE)

\* class AppError: the constructor reads isOperational, code and context of
\* its options and nothing else; it sets no retryable and no originalError
\* property.  Error.captureStackTrace gives every instance a stack.
AppError(cls, message, statusCode, options) ==
  [cls |-> cls,
   message |-> message,
   name |-> cls,
   statusCode |-> statusCode,
   isOperational |-> IF options.isOperational # "false" THEN "true" ELSE "false",
   code |-> IF options.code # "" THEN options.code ELSE "INTERNAL_ERROR",
   context |-> options.context,
   retryable |-> Undefined,
   originalError |-> FALSE]

ValidationError(message, context) ==
  AppError("ValidationError", message, 400,
           Options("true", "VALIDATION_ERROR", context, Undefined))

NotFoundError(message, context) ==
  AppError("NotFoundError", message, 404,
           Options("true", "NOT_FOUND", context, Undefined))

UnauthorizedError(message, context) ==
  AppError("UnauthorizedError", message, 401,
           Options("true", "UNAUTHORIZED", context, Undefined))

ServiceUnavailableError(message, context) ==
  AppError("ServiceUnavailableError", message, 503,
           Options("true", "SERVICE_UNAVAILABLE", context, Undefined))

AppErrorClasses ==
  {"AppError", "ValidationError", "NotFoundError", "UnauthorizedError",
   "ServiceUnavailableError"}

\* The AppError object a raw error with app # "" is: the class's constructor
\* applied to its message, with the class's defaults.
AsAppError(err) ==
  CASE err.app = "ValidationError" -> ValidationError(err.message, EmptyContext)
    [] err.app = "NotFoundError" -> NotFoundError(err.message, EmptyContext)
    [] err.app = "UnauthorizedError" -> UnauthorizedError(err.message, EmptyContext)
    [] err.app = "ServiceUnavailableError" ->
         ServiceUnavailableError(err.message, EmptyContext)
    [] OTHER -> AppError("AppError", err.message, 500,
                         Options(Undefined, "", EmptyContext, Undefined))

----------------------------------------------------------------------------
(* classifyError *)

MsgRateLimit ==
  <<"AI", "service", "rate", "limit", "exceeded.", "Please", "try", "again", "later.">>

MsgServiceUnavailable ==
  <<"AI", "service", "unavailable.", "Please", "try", "again", "later.">>

MsgAuthFailed == <<"API", "authentication", "failed">>

MsgAIService == <<"Error", "communicating", "with", "AI", "service">>

MsgTimedOut == <<"Request", "timed", "out.", "Please", "try", "again", "later.">>

MsgUnexpected == <<"An", "unexpected", "error", "occurred">>

\* err.name === 'OpenAIError' || (err.originalError && err.originalError.name === 'OpenAIError')
isOpenAIError(err) ==
  err.name = "OpenAIError" \/ (err.hasOrig /\ err.origName = "OpenAIError")

\* err.status === s || (err.originalError && err.originalError.status === s)
statusIs(err, s) == err.status = s \/ (err.hasOrig /\ err.origStatus = s)

\* err.status >= 500 || (err.originalError && err.originalError.status >= 500)
statusAtLeast500(err) == err.status >= 500 \/ (err.hasOrig /\ err.origStatus >= 500)

Returns(e) == [threw |-> FALSE, err |-> e]

\* A TypeError escapes classifyError: no classified error is produced.
ThrowsTypeError == [threw |-> TRUE, err |-> AppError("", <<>>, NoStatus,
                                         Options(Undefined, "", EmptyContext, Undefined))]

\* The branch for OpenAI API errors.
classifyOpenAIError(err) ==
  IF statusIs(err, 429)
    THEN Returns(ServiceUnavailableError(MsgRateLimit,
                   Context("RATE_LIMIT_EXCEEDED", "true", FALSE)))
  ELSE IF statusAtLeast500(err)
    THEN Returns(ServiceUnavailableError(MsgServiceUnavailable,
                   Context("SERVICE_ERROR", "true", FALSE)))
  ELSE IF statusIs(err, 401)
    THEN Returns(AppError("AppError", MsgAuthFailed, 500,
                   Options("false", "AUTH_ERROR", EmptyContext, Undefined)))
  ELSE Returns(AppError("AppError", MsgAIService, 500,
                   Options("true", "AI_SERVICE_ERROR", EmptyContext, "true")))

\* The branches after the OpenAI one.  err.message.includes('timeout') is
\* evaluated when the name is not 'TimeoutError'; on an absent message it
\* throws a TypeError.
classifyOtherError(err) ==
  IF err.name = "ValidationError" \/ err.name = "SyntaxError"
    THEN Returns(ValidationError(err.message, EmptyContext))
  ELSE IF err.name # "TimeoutError" /\ ~err.hasMessage
    THEN ThrowsTypeError
  ELSE IF err.name = "TimeoutError" \/ includes(err.message, <<"timeout">>)
    THEN Returns(ServiceUnavailableError(MsgTimedOut,
                   Context("TIMEOUT", "true", FALSE)))
  ELSE IF err.hasMessage /\ includes(toLowerCase(err.message), <<"not", "found">>)
    THEN Returns(NotFoundError(err.message, EmptyContext))
  ELSE Returns(AppError("AppError",
                 IF err.hasMessage /\ err.message # <<>> THEN err.message
                                                         ELSE MsgUnexpected,
                 500, Options("false", "", EmptyContext, Undefined)))

classifyError(err) ==
  IF err.app # "" THEN Returns(AsAppError(err))
  ELSE IF isOpenAIError(err) THEN classifyOpenAIError(err)
  ELSE classifyOtherError(err)

\* The errors classifyError is applied to: whatever a handler passes to
\* next(): operation errors, createChatCompletion's enhanced errors (name
\* Error, with originalError and its status), AppError instances, and thrown
\* values with no message (a thrown string or plain object).
ErrorNames == {"Error", "OpenAIError", "ValidationError", "TimeoutError"}

ClassifyStatuses == {NoStatus, 400, 401, 429, 500, 503}

ClassifyInputs ==
  { RawError("", n, TRUE, m, s, "", FALSE, "", NoStatus) :
      n \in ErrorNames, m \in Messages, s \in ClassifyStatuses }
  \cup
  { RawError("", "Error", TRUE, m, s, "", TRUE, on, s) :
      m \in Messages, s \in ClassifyStatuses, on \in {"Error", "OpenAIError"} }
  \cup
  { RawError("", n, FALSE, <<>>, NoStatus, "", FALSE, "", NoStatus) :
      n \in {"", "Error", "TimeoutError"} }
  \cup
  { RawError(c, c, TRUE, m, NoStatus, "", FALSE, "", NoStatus) :
      c \in AppErrorClasses, m \in Messages }

NoResult == Returns(AppError("", <<>>, NoStatus,
                             Options(Undefined, "", EmptyContext, Undefined)))

----------------------------------------------------------------------------
(* errorMiddleware *)

MsgInternalServerError == <<"Internal", "Server", "Error">>

NodeEnvs == {"development", "production"}

\* A faulty variant: the stack is added whatever the environment.
StackShown_Always(env, isOperational) == ~isOperational

\* config.nodeEnv === 'development' && !isOperational
StackShown(env, isOperational) == env = "development" /\ ~isOperational

\* What errorMiddleware sends: res.status(statusCode).json(errorResponse).
\* An absent retryable property is "undefined"; details, stack and
\* originalError say whether the body has the property.
ErrorResponse(statusCode, error, code, retryable, details, stack, originalError) ==
  [threw |-> FALSE,
   statusCode |-> statusCode,
   body |-> [error |-> error, code |-> code, status |-> statusCode,
             retryable |-> retryable, details |-> details, stack |-> stack,
             originalError |-> originalError]]

\* Nothing sent (yet).
NoErrorResponse == ErrorResponse(NoStatus, <<>>, "", Undefined, FALSE, FALSE, FALSE)

\* classifyError threw: errorMiddleware sends nothing and the TypeError
\* goes on to the framework.
ErrorMiddlewareThrows == [NoErrorResponse EXCEPT !.threw = TRUE]

errorMiddleware(err, env) ==
  LET c == classifyError(err)
      classifiedError == c.err
      isOperational == classifiedError.isOperational # "false"
      statusCode == IF classifiedError.statusCode # NoStatus
                      THEN classifiedError.statusCode ELSE 500
  IN IF c.threw THEN ErrorMiddlewareThrows
     ELSE ErrorResponse(
            statusCode,
            IF classifiedError.message # <<>> THEN classifiedError.message
                                              ELSE MsgInternalServerError,
            IF classifiedError.code # "" THEN classifiedError.code
                                         ELSE "INTERNAL_ERROR",
            classifiedError.retryable,
            classifiedError.cls = "ValidationError" /\ classifiedError.context.details,
            StackShown(env, isOperational),
            StackShown(env, isOperational) /\ classifiedError.originalError)

ClassifyIdle ==
  /\ cErr = NoError
  /\ cpc = "idle"
  /\ cRes = NoResult
  /\ eResp = NoErrorResponse

\* The module-level handle after the module is loaded: the client, or null
\* when createOpenAIClient threw (the API key is missing).
CompletionIdle ==
  /\ openai = IF apiKey THEN "client" ELSE "null"
  /\ ccpc = "idle"
  /\ ccErr = NoError
  /\ availability = "none"

ConfigProduction ==
  /\ apiKey = TRUE
  /\ nodeEnv = "production"

ConfigInit ==
  /\ apiKey \in BOOLEAN
  /\ nodeEnv \in NodeEnvs

RetryIdle ==
  /\ retryAttempts = 0
  /\ retryDelay = 0
  /\ delay = 0
  /\ attempt = 0
  /\ rpc = "idle"
  /\ lastError = NoError
  /\ thrown = "none"
  /\ rawCalls = 0
  /\ waits = 0
  /\ outcomes = <<>>
  /\ rawError = NoError

ClassifyInit ==
  /\ cErr \in ClassifyInputs
  /\ cpc = "input"
  /\ cRes = NoResult
  /\ eResp = NoErrorResponse

\* errorMiddleware(err): its call classifyError(err) and the response sent.
Classify ==
  /\ cpc = "input"
  /\ cRes' = classifyError(cErr)
  /\ eResp' = errorMiddleware(cErr, nodeEnv)
  /\ cpc' = "done"
  /\ UNCHANGED cErr
  /\ UNCHANGED <<retryVars, handlerVars, completionVars, configVars, restVars>>

----------------------------------------------------------------------------
(* createChatCompletion *)

MsgKeyMissing ==
  <<"OpenAI", "API", "key", "is", "missing.", "Please", "set", "the",
    "OPENAI_API_KEY", "environment", "variable.">>

\* new Error(`OpenAI client unavailable: ${initError.message}`)
ClientUnavailable ==
  RawError("", "Error", TRUE, <<"OpenAI", "client", "unavailable:">> \o MsgKeyMissing,
           NoStatus, "", FALSE, "", NoStatus)

MsgProcessing == <<"An", "error", "occurred", "while", "processing", "your", "request">>

MsgRateLimitExceeded ==
  <<"API", "rate", "limit", "exceeded.", "Please", "try", "again", "in", "a", "moment.">>

MsgExperiencingIssues ==
  <<"The", "AI", "service", "is", "currently", "experiencing", "issues.",
    "Please", "try", "again", "later.">>

MsgAuthenticationError ==
  <<"API", "authentication", "error.", "Please", "check", "API", "key",
    "configuration.">>

MsgInvalidParameters ==
  <<"Invalid", "request", "parameters", "sent", "to", "AI", "service.">>

\* The message by status code; in development the error's own message, when
\* it is not empty, is appended in parentheses.
formatErrorMessage(error, env) ==
  LET baseMessage ==
        IF error.status = 429 THEN MsgRateLimitExceeded
        ELSE IF error.status >= 500 THEN MsgExperiencingIssues
        ELSE IF error.status = 401 THEN MsgAuthenticationError
        ELSE IF error.status = 400 THEN MsgInvalidParameters
        ELSE MsgProcessing
  IN IF env = "development" /\ error.hasMessage /\ error.message # <<>>
       THEN baseMessage \o <<"(">> \o error.message \o <<")">>
       ELSE baseMessage

\* enhancedError: a new Error with the formatted message, the caught error
\* as originalError and its status.
Enhanced(error, env) ==
  RawError("", "Error", TRUE, formatErrorMessage(error, env), error.status, "",
           TRUE, error.name, error.status)

\* The TypeError of reading a property of undefined or null.
TypeErrorValue ==
  RawError("", "TypeError", TRUE, <<"Cannot", "read", "properties", "of", "null">>,
           NoStatus, "", FALSE, "", NoStatus)

\* What the try block of createChatCompletion caught from withRetry.
Caught == IF thrown = "TypeError" THEN TypeErrorValue ELSE lastError

\* The call of createChatCompletion up to the await of withRetry: the client
\* is created when the handle is null; withRetry evaluates its options and
\* enters the loop.
CreateBegin ==
  /\ ccpc = "idle"
  /\ IF openai = "null" /\ ~apiKey
       THEN /\ ccpc' = "thrown"
            /\ ccErr' = ClientUnavailable
            /\ UNCHANGED <<openai, rpc>>
       ELSE /\ openai' = "client"
            /\ ccpc' = "retrying"
            /\ ccErr' = ccErr
            /\ rpc' = IF LoopCondition(0, retryAttempts) THEN "call" ELSE "thrown"
  /\ UNCHANGED <<retryAttempts, retryDelay, delay, attempt, lastError, thrown, rawCalls,
                 waits, outcomes, rawError, availability>>
  /\ UNCHANGED <<classifyVars, handlerVars, configVars, restVars>>

\* withRetry returned a response: the log line reads
\* response.choices[0].message.content.length inside the try block, which
\* throws a TypeError when the content is null.
CreateReturn(hasContent) ==
  /\ ccpc = "retrying"
  /\ rpc = "returned"
  /\ IF hasContent
       THEN ccpc' = "returned" /\ ccErr' = ccErr
       ELSE ccpc' = "thrown" /\ ccErr' = Enhanced(TypeErrorValue, nodeEnv)
  /\ UNCHANGED <<retryVars, openai, availability, classifyVars, handlerVars, configVars, restVars>>

\* A faulty variant: the catch block throws what it caught.
CreateCatch_Rethrow ==
  /\ ccpc = "retrying"
  /\ rpc = "thrown"
  /\ ccpc' = "thrown"
  /\ ccErr' = Caught
  /\ UNCHANGED <<retryVars, openai, availability, classifyVars, handlerVars, configVars, restVars>>

\* withRetry threw: the catch block throws the enhanced error.
CreateCatch ==
  /\ ccpc = "retrying"
  /\ rpc = "thrown"
  /\ ccpc' = "thrown"
  /\ ccErr' = Enhanced(Caught, nodeEnv)
  /\ UNCHANGED <<retryVars, openai, availability, classifyVars, handlerVars, configVars, restVars>>

\* checkAvailability(): the client is created when the handle is null; a
\* failed creation and a failed openai.models.list are caught and give false.
CheckAvailability(listed) ==
  /\ IF openai = "null" /\ ~apiKey
       THEN openai' = openai /\ availability' = "false"
       ELSE /\ openai' = "client"
            /\ availability' = IF listed THEN "true" ELSE "false"
  /\ UNCHANGED <<ccpc, ccErr>>
  /\ UNCHANGED <<retryVars, classifyVars, handlerVars, configVars, restVars>>

\* One call of createChatCompletion about to be made: the retry options are
\* those of the configuration, withRetry has not been entered.
CompletionInit ==
  /\ RetryConfig
  /\ delay = 0
  /\ attempt = 0
  /\ rpc = "idle"
  /\ lastError = NoError
  /\ thrown = "none"
  /\ rawCalls = 0
  /\ waits = 0
  /\ outcomes = <<>>
  /\ rawError = NoError
  /\ CompletionIdle

----------------------------------------------------------------------------

(* The controller: session store *)

Sessions == {"A", "B"}

Reqs == {"r1", "r2"}

\* Object.values(config.contractLanguages)
contractLanguages == {"solidity", "vyper", "rust"}

defaultLanguage == "solidity"

isValidLanguage(language) == language \in contractLanguages

\* A faulty variant: the value is set for every key of the map.
MapSet_All(map, key, value) == [k \in DOMAIN map \cup {key} |-> value]

\* Map.prototype.set
MapSet(map, key, value) ==
  [k \in DOMAIN map \cup {key} |-> IF k = key THEN value ELSE map[k]]

\* Map.prototype.delete
MapDelete(map, key) == [k \in DOMAIN map \ {key} |-> map[k]]

EmptyMap == [k \in {} |-> 0]

\* sessionStore.languages.get(key): undefined ("") for a key without entry.
LanguageGet(map, key) == IF key \in DOMAIN map THEN map[key] ELSE ""

\* The store after getSessionData(req) of session sid at time t: a missing
\* session is initialised, a present one has its last activity updated.
StoreAfterGet(store, sid, t) ==
  IF sid \notin DOMAIN store.conversations
    THEN [conversations |-> MapSet(store.conversations, sid, <<>>),
          phases |-> MapSet(store.phases, sid, 1),
          languages |-> MapSet(store.languages, sid, defaultLanguage),
          lastActivity |-> MapSet(store.lastActivity, sid, t)]
    ELSE [store EXCEPT !.lastActivity = MapSet(store.lastActivity, sid, t)]

\* updateSessionData(sessionId, data).  In data, hasConversation tells whether
\* data.conversation is present (an array, also an empty one, is truthy);
\* phase 0 and language "" are the absent (falsy) values.
StoreAfterUpdate(store, sid, data, t) ==
  [conversations |-> IF data.hasConversation
                       THEN MapSet(store.conversations, sid, data.conversation)
                       ELSE store.conversations,
   phases |-> IF data.phase # 0 THEN MapSet(store.phases, sid, data.phase)
                                ELSE store.phases,
   languages |-> IF data.language # "" THEN MapSet(store.languages, sid, data.language)
                                       ELSE store.languages,
   lastActivity |-> MapSet(store.lastActivity, sid, t)]

Store ==
  [conversations |-> conversations, phases |-> phases, languages |-> languages,
   lastActivity |-> lastActivity]

SetStore(store) ==
  /\ conversations' = store.conversations
  /\ phases' = store.phases
  /\ languages' = store.languages
  /\ lastActivity' = store.lastActivity

----------------------------------------------------------------------------
(* The controller: handleChat and generateCode *)

MsgChatTimedOut == <<"Request", "processing", "timed", "out">>

MsgGenTimedOut == <<"Code", "generation", "timed", "out">>

MsgUnavailable == <<"AI", "service", "is", "currently", "unavailable.">>

MsgInvalidRequest == <<"Invalid", "request">>

NoResponse ==
  [code |-> 0, status |-> "", error |-> <<>>, retryable |-> FALSE, phase |-> 0]

\* A request before its handler runs.
NewRequest ==
  [kind |-> "", pc |-> "new", session |-> "",
   curConv |-> <<>>, curPhase |-> 0, curLang |-> "",
   op |-> "none", timer |-> "none", observed |-> "none",
   responses |-> 0, response |-> NoResponse, storeWrites |-> 0]

\* res.status(code).json(body): one more response of the request.
Respond(q, code, status, error, retryable, phase) ==
  [q EXCEPT !.pc = "done",
            !.responses = q.responses + 1,
            !.response = [code |-> code, status |-> status, error |-> error,
                          retryable |-> retryable, phase |-> phase]]

\* The request bodies of POST /chat: message valid or not, newChat,
\* selectedLanguage ("" when absent).
ChatBodies ==
  [validMessage : BOOLEAN, newChat : BOOLEAN,
   selectedLanguage : {"", "vyper", "cobol"}]

\* What contractService.handleSmartContractAssistant fulfils with: error is
\* <<>> when the result has none.
ChatResult(error, hasConversation, conversation, phase) ==
  [error |-> error, hasConversation |-> hasConversation,
   conversation |-> conversation, phase |-> phase, retryable |-> FALSE]

ChatResults ==
  { ChatResult(<<>>, TRUE, <<"m1", "m2">>, 2),
    ChatResult(<<>>, FALSE, <<>>, 0),
    ChatResult(<<"Internal", "error">>, FALSE, <<>>, 0) }

\* What the processing or generation promise rejects with.
Rejections ==
  { RawError("", "Error", TRUE, m, s, "", FALSE, "", NoStatus) :
      m \in { <<>>, <<"Connection", "timeout">>, <<"rate", "limit", "exceeded">>,
              <<"Internal", "error">> },
      s \in {NoStatus, 500} }

\* A faulty variant: every settlement of the operation or the timer reaches the handler.
RacePending_Always(q) == TRUE

\* Promise.race([operation, timeoutPromise]) is still pending: neither the
\* operation nor the timer has settled it.
RacePending(q) == q.observed = "none"

\* The .catch handler of the race in handleChat.
ChatCaught(error) ==
  [error |-> error.message, hasConversation |-> FALSE, conversation |-> <<>>,
   phase |-> 0,
   retryable |-> \/ includes(error.message, <<"timeout">>)
                 \/ includes(error.message, <<"rate", "limit">>)
                 \/ error.status >= 500]

\* handleChat from its start to the await of checkAvailability().
ChatBegin(r, sid, body) ==
  /\ req[r].pc = "new"
  /\ IF ~body.validMessage
       THEN /\ req' = [req EXCEPT ![r] =
                        Respond([req[r] EXCEPT !.kind = "chat", !.session = sid],
                                400, "", MsgInvalidRequest, FALSE, 0)]
            /\ UNCHANGED storeVars
       ELSE LET store == StoreAfterGet(Store, sid, now)
                conv == IF body.newChat THEN <<>> ELSE store.conversations[sid]
                phase == IF body.newChat THEN 1 ELSE store.phases[sid]
                lang == IF /\ body.selectedLanguage # ""
                           /\ body.selectedLanguage # LanguageGet(store.languages, sid)
                           /\ isValidLanguage(body.selectedLanguage)
                          THEN body.selectedLanguage
                          ELSE LanguageGet(store.languages, sid)
            IN /\ SetStore(store)
               /\ req' = [req EXCEPT ![r] =
                            [req[r] EXCEPT !.kind = "chat", !.session = sid,
                                           !.pc = "availability",
                                           !.curConv = conv, !.curPhase = phase,
                                           !.curLang = lang]]
  /\ UNCHANGED <<now, retryVars, classifyVars, completionVars, configVars, restVars>>

\* checkAvailability() resolves: 503 when the service is not available,
\* otherwise the timer is set, the processing starts and the race is awaited.
ChatAvailability(r, available) ==
  /\ req[r].pc = "availability"
  /\ req' = [req EXCEPT ![r] =
               IF ~available
                 THEN Respond(req[r], 503, "error", MsgUnavailable, TRUE, 0)
                 ELSE [req[r] EXCEPT !.pc = "racing", !.op = "running",
                                     !.timer = "armed"]]
  /\ UNCHANGED <<storeVars, now, retryVars, classifyVars, completionVars, configVars, restVars>>

\* handleChat after the race settled with result (a fulfilment value, or what
\* the .catch handler made of a rejection): the session update and the
\* response.  q is the request with the settling event recorded.
ChatFinish(r, q, by, result) ==
  LET phase == IF result.phase # 0 THEN result.phase ELSE q.curPhase
      ok == result.error = <<>>
      data == [hasConversation |-> TRUE,
               conversation |-> IF result.hasConversation THEN result.conversation
                                                           ELSE q.curConv,
               phase |-> phase,
               language |-> q.curLang]
      q2 == [q EXCEPT !.observed = by,
                      !.storeWrites = IF ok THEN q.storeWrites + 1 ELSE q.storeWrites]
  IN /\ IF ok THEN SetStore(StoreAfterUpdate(Store, q.session, data, now))
              ELSE UNCHANGED storeVars
     /\ req' = [req EXCEPT ![r] =
                  Respond(q2, 200, IF ok THEN "success" ELSE "error",
                          result.error, result.retryable, phase)]

\* generateCode from its start to the await of the race.
GenBegin(r, sid, hasSpec, language) ==
  /\ req[r].pc = "new"
  /\ IF ~hasSpec
       THEN /\ req' = [req EXCEPT ![r] =
                        Respond([req[r] EXCEPT !.kind = "generate", !.session = sid],
                                400, "", MsgInvalidRequest, FALSE, 0)]
            /\ UNCHANGED storeVars
       ELSE LET store == StoreAfterGet(Store, sid, now)
                target == IF language # "" THEN language ELSE LanguageGet(store.languages, sid)
                q == [req[r] EXCEPT !.kind = "generate", !.session = sid,
                                    !.curLang = target]
            IN /\ SetStore(store)
               /\ req' = [req EXCEPT ![r] =
                            IF ~isValidLanguage(target)
                              THEN Respond(q, 400, "", MsgInvalidRequest, FALSE, 0)
                              ELSE [q EXCEPT !.pc = "racing", !.op = "running",
                                             !.timer = "armed"]]
  /\ UNCHANGED <<now, retryVars, classifyVars, completionVars, configVars, restVars>>

\* error.statusCode of a rejection: AppError instances have one.
statusCodeOf(error) ==
  IF error.app # "" THEN AsAppError(error).statusCode ELSE NoStatus

\* generateCode after the race settled with the generated code.
GenSucceeded(r, q, by) ==
  /\ req' = [req EXCEPT ![r] =
               Respond([q EXCEPT !.observed = by], 200, "success", <<>>, FALSE, 0)]
  /\ UNCHANGED storeVars

\* generateCode after the race settled with a rejection: the catch block.
GenFailed(r, q, by, error) ==
  LET statusCode == IF statusCodeOf(error) # NoStatus THEN statusCodeOf(error)
                    ELSE IF includes(error.message, <<"timeout">>) THEN 504 ELSE 500
  IN /\ req' = [req EXCEPT ![r] =
                  Respond([q EXCEPT !.observed = by], statusCode, "error",
                          error.message,
                          includes(error.message, <<"timeout">>) \/ statusCode >= 500,
                          0)]
     /\ UNCHANGED storeVars

\* The race has settled before: the event that arrives now has no listener
\* but the race's own, which ignores it.
Discarded(r, q) ==
  /\ req' = [req EXCEPT ![r] = q]
  /\ UNCHANGED storeVars

\* The timer's error of the request's handler.
TimeoutError(q) ==
  RawError("", "Error", TRUE,
           IF q.kind = "chat" THEN MsgChatTimedOut ELSE MsgGenTimedOut,
           NoStatus, "", FALSE, "", NoStatus)

\* The guarded operation fulfils (for handleChat with result).
OperationFulfils(r, result) ==
  /\ req[r].op = "running"
  /\ LET q == [req[r] EXCEPT !.op = "settled"] IN
       IF ~RacePending(req[r]) THEN Discarded(r, q)
       ELSE IF q.kind = "chat" THEN ChatFinish(r, q, "operation", result)
       ELSE GenSucceeded(r, q, "operation")
  /\ UNCHANGED <<now, retryVars, classifyVars, completionVars, configVars, restVars>>

\* The guarded operation rejects with error.
OperationRejects(r, error) ==
  /\ req[r].op = "running"
  /\ LET q == [req[r] EXCEPT !.op = "settled"] IN
       IF ~RacePending(req[r]) THEN Discarded(r, q)
       ELSE IF q.kind = "chat" THEN ChatFinish(r, q, "operation", ChatCaught(error))
       ELSE GenFailed(r, q, "operation", error)
  /\ UNCHANGED <<now, retryVars, classifyVars, completionVars, configVars, restVars>>

\* A faulty variant: the timer's callback does not reject the promise in the race.
TimerFires_NoReject(r) ==
  /\ req[r].timer = "armed"
  /\ Discarded(r, [req[r] EXCEPT !.timer = "fired"])
  /\ UNCHANGED <<now, retryVars, classifyVars, completionVars, configVars, restVars>>

\* The setTimeout callback runs: timeoutPromise rejects.
TimerFires(r) ==
  /\ req[r].timer = "armed"
  /\ LET q == [req[r] EXCEPT !.timer = "fired"] IN
       IF ~RacePending(req[r]) THEN Discarded(r, q)
       ELSE IF q.kind = "chat"
         THEN ChatFinish(r, q, "timer", ChatCaught(TimeoutError(q)))
       ELSE GenFailed(r, q, "timer", TimeoutError(q))
  /\ UNCHANGED <<now, retryVars, classifyVars, completionVars, configVars, restVars>>

(* The controller: getLanguage, setLanguage, clearSession, the clock *)

MsgMissingLanguage == <<"Missing", "language", "parameter">>

MsgInvalidLanguage == <<"Invalid", "language">>

\* getLanguage: getSessionData(req) and the response.
GetLanguage(r, sid) ==
  /\ req[r].pc = "new"
  /\ SetStore(StoreAfterGet(Store, sid, now))
  /\ req' = [req EXCEPT ![r] =
               Respond([req[r] EXCEPT !.kind = "getLanguage", !.session = sid,
                                      !.curLang = LanguageGet(StoreAfterGet(Store, sid, now).languages, sid)],
                       200, "", <<>>, FALSE, 0)]
  /\ UNCHANGED <<now, retryVars, classifyVars, completionVars, configVars, restVars>>

\* setLanguage: language is "" when the body has none.
SetLanguage(r, sid, language) ==
  /\ req[r].pc = "new"
  /\ LET q == [req[r] EXCEPT !.kind = "setLanguage", !.session = sid] IN
       IF language = ""
         THEN /\ req' = [req EXCEPT ![r] = Respond(q, 400, "", MsgMissingLanguage, FALSE, 0)]
              /\ UNCHANGED storeVars
       ELSE IF ~isValidLanguage(language)
         THEN /\ req' = [req EXCEPT ![r] = Respond(q, 400, "", MsgInvalidLanguage, FALSE, 0)]
              /\ UNCHANGED storeVars
       ELSE /\ SetStore(StoreAfterUpdate(StoreAfterGet(Store, sid, now), sid,
                          [hasConversation |-> FALSE, conversation |-> <<>>,
                           phase |-> 0, language |-> language], now))
            /\ req' = [req EXCEPT ![r] =
                         Respond([q EXCEPT !.curLang = language,
                                           !.storeWrites = q.storeWrites + 1],
                                 200, "success", <<>>, FALSE, 0)]
  /\ UNCHANGED <<now, retryVars, classifyVars, completionVars, configVars, restVars>>

\* clearSession: the session's conversation, phase and last activity are
\* deleted, its language is kept.
ClearSession(r, sid) ==
  /\ req[r].pc = "new"
  /\ conversations' = MapDelete(conversations, sid)
  /\ phases' = MapDelete(phases, sid)
  /\ lastActivity' = MapDelete(lastActivity, sid)
  /\ languages' = languages
  /\ req' = [req EXCEPT ![r] =
               Respond([req[r] EXCEPT !.kind = "clearSession", !.session = sid],
                       200, "success", <<>>, FALSE, 0)]
  /\ UNCHANGED <<now, retryVars, classifyVars, completionVars, configVars, restVars>>

\* Date.now() advances.
Tick ==
  /\ now < MaxTime
  /\ now' = now + 1
  /\ UNCHANGED <<storeVars, req, retryVars, classifyVars, completionVars, configVars, restVars>>

(* The controller: handlePhaseTransition *)

MsgMissingTargetPhase == <<"Missing", "targetPhase", "parameter">>

MsgInvalidPhase == <<"Invalid", "phase.", "Must", "be", "between", "1", "and", "3.">>

\* handlePhaseTransition from its start to the await of the service:
\* targetPhase is 0 when the body has none.
PhaseBegin(r, sid, targetPhase) ==
  /\ req[r].pc = "new"
  /\ LET q == [req[r] EXCEPT !.kind = "phase", !.session = sid] IN
       IF targetPhase = 0
         THEN /\ req' = [req EXCEPT ![r] = Respond(q, 400, "", MsgMissingTargetPhase, FALSE, 0)]
              /\ UNCHANGED storeVars
       ELSE IF targetPhase < 1 \/ targetPhase > 3
         THEN /\ req' = [req EXCEPT ![r] = Respond(q, 400, "", MsgInvalidPhase, FALSE, 0)]
              /\ UNCHANGED storeVars
       ELSE LET store == StoreAfterGet(Store, sid, now) IN
              /\ SetStore(store)
              /\ req' = [req EXCEPT ![r] =
                           [q EXCEPT !.pc = "transition",
                                     !.curConv = store.conversations[sid],
                                     !.curPhase = store.phases[sid],
                                     !.curLang = LanguageGet(store.languages, sid)]]
  /\ UNCHANGED <<now, retryVars, classifyVars, completionVars, configVars, restVars>>

\* contractService.handlePhaseTransition fulfils with result: the session
\* update when the result has no error, and the response.
PhaseFulfils(r, result) ==
  /\ req[r].pc = "transition"
  /\ LET q == req[r]
         phase == IF result.phase # 0 THEN result.phase ELSE q.curPhase
         ok == result.error = <<>>
         data == [hasConversation |-> TRUE,
                  conversation |-> IF result.hasConversation THEN result.conversation
                                                              ELSE q.curConv,
                  phase |-> phase,
                  language |-> ""]
     IN /\ IF ok THEN SetStore(StoreAfterUpdate(Store, q.session, data, now))
                 ELSE UNCHANGED storeVars
        /\ req' = [req EXCEPT ![r] =
                     Respond([q EXCEPT !.storeWrites = IF ok THEN @ + 1 ELSE @],
                             200, IF ok THEN "success" ELSE "error",
                             result.error, FALSE, phase)]
  /\ UNCHANGED <<now, retryVars, classifyVars, completionVars, configVars, restVars>>

\* contractService.handlePhaseTransition rejects with error: next(error), and
\* errorMiddleware answers.
PhaseRejects(r, error) ==
  /\ req[r].pc = "transition"
  /\ LET sent == errorMiddleware(error, nodeEnv) IN
       req' = [req EXCEPT ![r] =
                 IF sent.threw THEN [req[r] EXCEPT !.pc = "done"]
                 ELSE Respond(req[r], sent.statusCode, "error", sent.body.error,
                              sent.body.retryable = "true", 0)]
  /\ UNCHANGED <<storeVars, now, retryVars, classifyVars, completionVars, configVars, restVars>>

(* The controller: the session sweep *)

\* IDLE_TIMEOUT, 24 hours, with the clock counting in units of 24 hours.
IdleTimeout == 1

\* A faulty variant: a session is idle from 24 hours on.
IsIdle_AtLeast(t, timestamp) == t - timestamp >= IdleTimeout

\* now - timestamp > IDLE_TIMEOUT
IsIdle(t, timestamp) == t - timestamp > IdleTimeout

\* The sessions a run of the sweep at time t deletes.
IdleSessions(store, t) ==
  { s \in DOMAIN store.lastActivity : IsIdle(t, store.lastActivity[s]) }

\* The map without the keys.
MapDeleteAll(map, keys) == [k \in DOMAIN map \ keys |-> map[k]]

\* One run of the setInterval callback of initSessionCleanup.
Sweep ==
  /\ LET idle == IdleSessions(Store, now) IN
       /\ conversations' = MapDeleteAll(conversations, idle)
       /\ phases' = MapDeleteAll(phases, idle)
       /\ languages' = MapDeleteAll(languages, idle)
       /\ lastActivity' = MapDeleteAll(lastActivity, idle)
  /\ UNCHANGED <<now, req, retryVars, classifyVars, completionVars, configVars, restVars>>

HandlerIdle ==
  /\ conversations = EmptyMap
  /\ phases = EmptyMap
  /\ languages = EmptyMap
  /\ lastActivity = EmptyMap
  /\ now = 0
  /\ req = [r \in Reqs |-> NewRequest]

\* The server after start-up: an empty session store, no request handled yet.
HandlerInit == HandlerIdle

----------------------------------------------------------------------------
(* Concurrent calls of createChatCompletion, sharing the module's handle *)

Calls == {"c1", "c2"}

\* What the raw call of a concurrent call rejects with: a rate-limit error,
\* an authentication error, a connection timeout.
ConcurrentErrors ==
  { RawError("", "OpenAIError", TRUE, <<"rate", "limit", "exceeded">>, 429, "",
             FALSE, "", NoStatus),
    RawError("", "OpenAIError", TRUE, <<"Internal", "error">>, 401, "",
             FALSE, "", NoStatus),
    RawError("", "Error", TRUE, <<"Connection", "timeout">>, NoStatus, "",
             FALSE, "", NoStatus) }

\* The locals of one call: withRetry's attempt, and as history the raw calls
\* made, the sleeps finished and the outcome of each raw call; err is what
\* createChatCompletion threw.
IdleCall ==
  [pc |-> "idle", attempt |-> 0, rawCalls |-> 0, waits |-> 0, outcomes |-> <<>>,
   err |-> NoError]

ConcurrentIdle == calls = [c \in Calls |-> IdleCall]

\* A faulty variant: the handle is not looked at before the call is made.
CallBegin_NoCheck(c) ==
  /\ calls[c].pc = "idle"
  /\ calls' = [calls EXCEPT ![c].pc = "call"]
  /\ UNCHANGED <<completionVars, fetchState, apiState>>
  /\ UNCHANGED <<retryVars, classifyVars, handlerVars, configVars>>

\* createChatCompletion of call c up to the first await of operation().
CallBegin(c) ==
  /\ calls[c].pc = "idle"
  /\ IF openai = "null" /\ ~apiKey
       THEN /\ calls' = [calls EXCEPT ![c].pc = "thrown", ![c].err = ClientUnavailable]
            /\ openai' = openai
       ELSE /\ calls' = [calls EXCEPT ![c].pc =
                           IF LoopCondition(0, retryAttempts) THEN "call" ELSE "thrown"]
            /\ openai' = "client"
  /\ UNCHANGED <<ccpc, ccErr, availability, fetchState, apiState>>
  /\ UNCHANGED <<retryVars, classifyVars, handlerVars, configVars>>

\* The raw call of c fulfils: withRetry and createChatCompletion return.
CallSucceeds(c) ==
  /\ calls[c].pc = "call"
  /\ calls' = [calls EXCEPT ![c].pc = "returned",
                            ![c].rawCalls = @ + 1,
                            ![c].outcomes = Append(@, "ok")]
  /\ UNCHANGED <<completionVars, fetchState, apiState>>
  /\ UNCHANGED <<retryVars, classifyVars, handlerVars, configVars>>

\* The raw call of c rejects with error: the catch block of withRetry, up to
\* the sleep, or to the throw and the catch block of createChatCompletion.
CallFails(c, error) ==
  /\ calls[c].pc = "call"
  /\ calls' = [calls EXCEPT
       ![c].rawCalls = @ + 1,
       ![c].outcomes = Append(@, OutcomeOf(error)),
       ![c].pc = IF BreakCondition(calls[c].attempt, retryAttempts, error)
                   THEN "thrown" ELSE "wait",
       ![c].err = IF BreakCondition(calls[c].attempt, retryAttempts, error)
                    THEN Enhanced(error, nodeEnv) ELSE @]
  /\ UNCHANGED <<completionVars, fetchState, apiState>>
  /\ UNCHANGED <<retryVars, classifyVars, handlerVars, configVars>>

\* A faulty variant: the loop variable is one variable of the module, shared
\* by the calls.
CallBackoffElapses_Shared(c) ==
  /\ calls[c].pc = "wait"
  /\ calls' = [d \in Calls |->
                 IF d = c
                   THEN [calls[d] EXCEPT !.waits = @ + 1, !.attempt = @ + 1, !.pc = "call"]
                   ELSE [calls[d] EXCEPT !.attempt = @ + 1]]
  /\ UNCHANGED <<completionVars, fetchState, apiState>>
  /\ UNCHANGED <<retryVars, classifyVars, handlerVars, configVars>>

\* The backoff sleep of c ends: attempt++ and the loop condition.
CallBackoffElapses(c) ==
  /\ calls[c].pc = "wait"
  /\ calls' = [calls EXCEPT
       ![c].waits = @ + 1,
       ![c].attempt = @ + 1,
       ![c].pc = IF LoopCondition(calls[c].attempt + 1, retryAttempts)
                   THEN "call" ELSE "thrown"]
  /\ UNCHANGED <<completionVars, fetchState, apiState>>
  /\ UNCHANGED <<retryVars, classifyVars, handlerVars, configVars>>

RECURSIVE SoloFrom(_, _, _)
\* withRetry run by itself from attempt a on the raw-call outcomes outs:
\* how it ends and how many raw calls it has made by then.
SoloFrom(outs, n, a) ==
  IF a + 1 > Len(outs) THEN [pc |-> "running", rawCalls |-> a]
  ELSE IF outs[a + 1] = "ok" THEN [pc |-> "returned", rawCalls |-> a + 1]
  ELSE IF a >= n \/ outs[a + 1] = "fatal" THEN [pc |-> "thrown", rawCalls |-> a + 1]
  ELSE SoloFrom(outs, n, a + 1)

----------------------------------------------------------------------------

(* The browser: APIService.fetchWithTimeout and fetchWithRetry *)

\* An error of the browser code: its name, message and status (NoStatus
\* when it has none).
BrowserError(name, message, status) ==
  [name |-> name, message |-> message, status |-> status]

NoBrowserError == BrowserError("", <<>>, NoStatus)

ResponseStatuses == {200, 302, 400, 404, 429, 499, 500, 503}

\* The messages the server's error bodies carry (errData.error); <<>> when
\* the body has none.
ServerMessages ==
  { <<>>, <<"Invalid", "request">>, <<"Internal", "error">>, <<"Connection", "timeout">> }

\* What fetch() does: it resolves with a response, rejects with a network
\* TypeError, or is aborted by the timer.
FetchOutcomes ==
  { [kind |-> "response", status |-> s, error |-> m] :
      s \in ResponseStatuses, m \in ServerMessages }
  \cup { [kind |-> k, status |-> NoStatus, error |-> <<>>] : k \in {"network", "abort"} }

\* Response.ok
ResponseOk(status) == status >= 200 /\ status <= 299

MsgFailedToFetch == <<"Failed", "to", "fetch">>

MsgFetchTimedOut == <<"Request", "timed", "out", "after", "30000ms">>

MsgServerError == <<"Server", "error">>

\* fetchWithTimeout: NoBrowserError when it returns the parsed body,
\* otherwise the error it throws.
fetchWithTimeout(outcome) ==
  IF outcome.kind = "response"
    THEN IF ResponseOk(outcome.status) THEN NoBrowserError
         ELSE BrowserError("Error",
                           IF outcome.error # <<>> THEN outcome.error ELSE MsgServerError,
                           outcome.status)
  ELSE IF outcome.kind = "abort"
    THEN BrowserError("Error", MsgFetchTimedOut, NoStatus)
  ELSE BrowserError("TypeError", MsgFailedToFetch, NoStatus)

\* err.status >= 400 && err.status < 500
IsClientError(err) == err.status >= 400 /\ err.status < 500

\* Math.min(1000 * Math.pow(2, retries), 10000)
FetchDelay(retries) ==
  IF 1000 * Pow2(retries) < 10000 THEN 1000 * Pow2(retries) ELSE 10000

\* One call of fetchWithRetry: the parameter maxRetries, the local retries,
\* the position, the delay of the sleep in progress, and as history the
\* number of fetchWithTimeout calls and the error caught last.
FetchCall(maxRetries) ==
  [maxRetries |-> maxRetries, retries |-> 0,
   pc |-> IF 0 <= maxRetries THEN "call" ELSE "returned",
   delay |-> 0, calls |-> 0, err |-> NoBrowserError]

FetchIdle == fetchState = [FetchCall(0) EXCEPT !.pc = "idle"]

FetchInit == \E maxRetries \in 0..MaxFetchRetries : fetchState = FetchCall(maxRetries)

\* A faulty variant: client errors are retried like the others.
FetchRethrows_Never(retries, maxRetries, err) == retries > maxRetries

\* The two throw statements of the catch block, retries already incremented.
FetchRethrows(retries, maxRetries, err) == IsClientError(err) \/ retries > maxRetries

\* await fetchWithTimeout(...) settles: the return, or the catch block up to
\* the throw or the sleep.
FetchAttempt(outcome) ==
  /\ fetchState.pc = "call"
  /\ LET err == fetchWithTimeout(outcome)
         retries == fetchState.retries + 1
     IN fetchState' =
          IF err = NoBrowserError
            THEN [fetchState EXCEPT !.pc = "returned", !.calls = @ + 1,
                                    !.err = NoBrowserError]
          ELSE IF FetchRethrows(retries, fetchState.maxRetries, err)
            THEN [fetchState EXCEPT !.pc = "thrown", !.calls = @ + 1,
                                    !.retries = retries, !.err = err]
          ELSE [fetchState EXCEPT !.pc = "wait", !.calls = @ + 1,
                                  !.retries = retries, !.err = err,
                                  !.delay = FetchDelay(retries)]
  /\ UNCHANGED <<calls, apiState>>
  /\ UNCHANGED <<retryVars, classifyVars, handlerVars, completionVars, configVars>>

\* The sleep ends: the condition of the while statement.
FetchBackoffElapses ==
  /\ fetchState.pc = "wait"
  /\ fetchState' = [fetchState EXCEPT
       !.delay = 0,
       !.pc = IF fetchState.retries <= fetchState.maxRetries THEN "call" ELSE "returned"]
  /\ UNCHANGED <<calls, apiState>>
  /\ UNCHANGED <<retryVars, classifyVars, handlerVars, completionVars, configVars>>

----------------------------------------------------------------------------

(* The browser: ChatService.callServerAPI *)

\* const maxRetries = 3
ApiMaxRetries == 3

MsgApiTimedOut == <<"Request", "timed", "out">>

MsgNetworkError ==
  <<"NetworkError", "when", "attempting", "to", "fetch", "resource.">>

MsgLoadFailed == <<"Load", "failed">>

MsgServerReturned == <<"Server", "returned">>

\* What fetch() rejects with in callServerAPI: the TypeError of a network
\* failure, with the message of the browser at hand.
ApiNetworkErrors ==
  { BrowserError("TypeError", m, NoStatus) :
      m \in {MsgFailedToFetch, MsgNetworkError, MsgLoadFailed} }

\* The timer of an attempt: reject(new Error('Request timed out')).
ApiTimeoutError == BrowserError("Error", MsgApiTimedOut, NoStatus)

\* The error thrown for a response that is not ok.
ApiResponseError(status, message) ==
  BrowserError("Error", IF message # <<>> THEN message ELSE MsgServerReturned, status)

\* (isServerError || isNetworkError || isTimeout) of the catch block.
ApiRetryable(error) ==
  \/ error.status >= 500
  \/ includes(error.message, <<"NetworkError">>)
  \/ includes(error.message, MsgFailedToFetch)
  \/ includes(error.message, <<"timeout">>)

\* What an attempt failed by, for the history.
FailureKind(by, error) ==
  IF by = "timer" THEN "timeout"
  ELSE IF by = "fetch" THEN "network"
  ELSE IF error.status >= 500 THEN "server"
  ELSE "other"

\* One call of callServerAPI, its first attempt awaiting the race: the local
\* retryCount, the position, and as history the number of attempts, what
\* each failed attempt failed by, and the error caught last.
ApiCall ==
  [retryCount |-> 0, pc |-> "racing", attempts |-> 1, failures |-> <<>>,
   err |-> NoBrowserError]

ApiIdle == apiState = [ApiCall EXCEPT !.pc = "idle", !.attempts = 0]

ApiInit == apiState = ApiCall

\* The catch block of attemptApiCall for an attempt that failed with error.
ApiCaught(by, error) ==
  IF ApiRetryable(error) /\ apiState.retryCount < ApiMaxRetries
    THEN [apiState EXCEPT !.retryCount = @ + 1, !.pc = "wait", !.err = error,
                          !.failures = Append(@, FailureKind(by, error))]
    ELSE [apiState EXCEPT !.pc = "thrown", !.err = error,
                          !.failures = Append(@, FailureKind(by, error))]

\* fetch() resolves first with a response of the status and error message.
ApiResponds(status, message) ==
  /\ apiState.pc = "racing"
  /\ apiState' = IF ResponseOk(status)
                   THEN [apiState EXCEPT !.pc = "returned"]
                   ELSE ApiCaught("response", ApiResponseError(status, message))
  /\ UNCHANGED <<calls, fetchState>>
  /\ UNCHANGED <<retryVars, classifyVars, handlerVars, completionVars, configVars>>

\* fetch() rejects first, with a network error.
ApiFetchRejects(error) ==
  /\ apiState.pc = "racing"
  /\ apiState' = ApiCaught("fetch", error)
  /\ UNCHANGED <<calls, fetchState>>
  /\ UNCHANGED <<retryVars, classifyVars, handlerVars, completionVars, configVars>>

\* The timer of the attempt fires first: the race rejects with its error.
ApiTimerFires ==
  /\ apiState.pc = "racing"
  /\ apiState' = ApiCaught("timer", ApiTimeoutError)
  /\ UNCHANGED <<calls, fetchState>>
  /\ UNCHANGED <<retryVars, classifyVars, handlerVars, completionVars, configVars>>

\* The backoff sleep ends: return attemptApiCall().
ApiBackoffElapses ==
  /\ apiState.pc = "wait"
  /\ apiState' = [apiState EXCEPT !.pc = "racing", !.attempts = @ + 1]
  /\ UNCHANGED <<calls, fetchState>>
  /\ UNCHANGED <<retryVars, classifyVars, handlerVars, completionVars, configVars>>

BrowserIdle == FetchIdle /\ ApiIdle

----------------------------------------------------------------------------

(* Specifications *)

\* One call of withRetry.
Init ==
  /\ RetryInit /\ ClassifyIdle /\ HandlerIdle /\ ConfigProduction /\ CompletionIdle
  /\ ConcurrentIdle /\ BrowserIdle

Next ==
  \/ OperationSucceeds
  \/ \E error \in OperationErrors : OperationFails(error)
  \/ BackoffElapses

Spec == Init /\ [][Next]_vars

\* One application of classifyError.
ClassifySpecInit ==
  /\ ClassifyInit /\ RetryIdle /\ HandlerIdle /\ ConfigInit /\ CompletionIdle
  /\ ConcurrentIdle /\ BrowserIdle

ClassifySpecNext == Classify

ClassifySpec == ClassifySpecInit /\ [][ClassifySpecNext]_vars

\* Two requests, each handled by handleChat or generateCode.
CompletionSpecInit ==
  /\ ConfigInit /\ CompletionInit /\ ClassifyIdle /\ HandlerIdle
  /\ ConcurrentIdle /\ BrowserIdle

CompletionNext ==
  \/ CreateBegin
  \/ OperationSucceeds
  \/ \E error \in OperationErrors : OperationFails(error)
  \/ BackoffElapses
  \/ \E hasContent \in BOOLEAN : CreateReturn(hasContent)
  \/ CreateCatch

CompletionSpec == CompletionSpecInit /\ [][CompletionNext]_vars

HandlerSpecInit ==
  /\ HandlerInit /\ RetryIdle /\ ClassifyIdle /\ ConfigProduction /\ CompletionIdle
  /\ ConcurrentIdle /\ BrowserIdle

HandlerNext ==
  \/ \E r \in Reqs, sid \in Sessions, body \in ChatBodies : ChatBegin(r, sid, body)
  \/ \E r \in Reqs, available \in BOOLEAN : ChatAvailability(r, available)
  \/ \E r \in Reqs, sid \in Sessions, hasSpec \in BOOLEAN,
        language \in {"", "rust", "cobol"} : GenBegin(r, sid, hasSpec, language)
  \/ \E r \in Reqs, result \in ChatResults : OperationFulfils(r, result)
  \/ \E r \in Reqs, error \in Rejections : OperationRejects(r, error)
  \/ \E r \in Reqs : TimerFires(r)
  \/ \E r \in Reqs, sid \in Sessions : GetLanguage(r, sid)
  \/ \E r \in Reqs, sid \in Sessions, language \in {"", "vyper", "cobol"} :
        SetLanguage(r, sid, language)
  \/ \E r \in Reqs, sid \in Sessions : ClearSession(r, sid)
  \/ Tick

HandlerSpec == HandlerSpecInit /\ [][HandlerNext]_vars

\* The session store under chat, language, phase-transition and
\* clear-session requests and runs of the sweep.
SessionSpecInit ==
  /\ HandlerInit /\ RetryIdle /\ ClassifyIdle /\ ConfigProduction /\ CompletionIdle
  /\ ConcurrentIdle /\ BrowserIdle

SessionNext ==
  \/ \E r \in Reqs, sid \in Sessions, body \in ChatBodies : ChatBegin(r, sid, body)
  \/ \E r \in Reqs, available \in BOOLEAN : ChatAvailability(r, available)
  \/ \E r \in Reqs, result \in ChatResults : OperationFulfils(r, result)
  \/ \E r \in Reqs, error \in Rejections : OperationRejects(r, error)
  \/ \E r \in Reqs : TimerFires(r)
  \/ \E r \in Reqs, sid \in Sessions : GetLanguage(r, sid)
  \/ \E r \in Reqs, sid \in Sessions, language \in {"", "vyper", "cobol"} :
        SetLanguage(r, sid, language)
  \/ \E r \in Reqs, sid \in Sessions : ClearSession(r, sid)
  \/ \E r \in Reqs, sid \in Sessions, targetPhase \in {0, 2, 4} :
        PhaseBegin(r, sid, targetPhase)
  \/ \E r \in Reqs, result \in ChatResults : PhaseFulfils(r, result)
  \/ \E r \in Reqs, error \in Rejections : PhaseRejects(r, error)
  \/ Sweep
  \/ Tick

SessionSpec == SessionSpecInit /\ [][SessionNext]_vars

\* The server after session A had its language set to vyper and was cleared,
\* the two requests over: clearSession has left the language entry alone.
HandlerAfterClear ==
  /\ conversations = EmptyMap
  /\ phases = EmptyMap
  /\ languages = MapSet(EmptyMap, "A", "vyper")
  /\ lastActivity = EmptyMap
  /\ now = 0
  /\ req = [r \in Reqs |-> NewRequest]

AfterClearSpecInit ==
  /\ HandlerAfterClear /\ RetryIdle /\ ClassifyIdle /\ ConfigProduction /\ CompletionIdle
  /\ ConcurrentIdle /\ BrowserIdle

\* The requests and sweeps that follow the clearing of session A.
AfterClearSpec == AfterClearSpecInit /\ [][SessionNext]_vars

\* Two calls of createChatCompletion and calls of checkAvailability.
ConcurrentSpecInit ==
  /\ ConfigInit /\ CompletionInit /\ ClassifyIdle /\ HandlerIdle
  /\ ConcurrentIdle /\ BrowserIdle

ConcurrentNext ==
  \/ \E c \in Calls : CallBegin(c)
  \/ \E c \in Calls : CallSucceeds(c)
  \/ \E c \in Calls, error \in ConcurrentErrors : CallFails(c, error)
  \/ \E c \in Calls : CallBackoffElapses(c)
  \/ \E listed \in BOOLEAN : CheckAvailability(listed)

ConcurrentSpec == ConcurrentSpecInit /\ [][ConcurrentNext]_vars

BrowserSpecIdle ==
  /\ RetryIdle /\ ClassifyIdle /\ HandlerIdle /\ ConfigProduction /\ CompletionIdle
  /\ ConcurrentIdle

\* One call of fetchWithRetry.
FetchSpecInit == BrowserSpecIdle /\ FetchInit /\ ApiIdle

FetchNext ==
  \/ \E outcome \in FetchOutcomes : FetchAttempt(outcome)
  \/ FetchBackoffElapses

FetchSpec == FetchSpecInit /\ [][FetchNext]_vars

\* One call of callServerAPI.
ApiSpecInit == BrowserSpecIdle /\ ApiInit /\ FetchIdle

ApiNext ==
  \/ \E status \in ResponseStatuses, message \in ServerMessages :
        ApiResponds(status, message)
  \/ \E error \in ApiNetworkErrors : ApiFetchRejects(error)
  \/ ApiTimerFires
  \/ ApiBackoffElapses

ApiSpec == ApiSpecInit /\ [][ApiNext]_vars

\* The event loop runs the callback of a timer that was set.
HandlerLiveSpec ==
  HandlerSpec /\ \A r \in Reqs : WF_vars(TimerFires(r))

----------------------------------------------------------------------------
(* Properties of withRetry, checked under Spec *)

AllRetryable(seq) == \A i \in 1..Len(seq) : seq[i] = "retryable"

\* C1: when every raw call fails with a retryable error, withRetry makes
\* exactly retryAttempts + 1 raw calls before it fails, and the error it
\* throws is the last one, a retryable error.
C1_ExhaustsRetries ==
  (rpc = "thrown" /\ AllRetryable(outcomes)) =>
     /\ rawCalls = retryAttempts + 1
     /\ thrown = "lastError"
     /\ isRetryableError(lastError)

C1_Witness ==
  /\ rpc = "thrown"
  /\ AllRetryable(outcomes)
  /\ retryAttempts = 3
  /\ rawCalls = 4

\* The steps withRetry has left at most: two per attempt not yet started,
\* two in a raw call, one in a backoff sleep.
RetryMeasure ==
  2 * (retryAttempts - attempt)
    + (IF rpc = "call" THEN 2 ELSE IF rpc = "wait" THEN 1 ELSE 0)

\* C2: withRetry never makes more than retryAttempts + 1 raw calls, and every
\* step of it (a raw call settling, a backoff sleep ending) decreases a
\* natural-number measure, so no run retries without bound.
C2_BoundedRetries ==
  /\ [](rawCalls <= retryAttempts + 1 /\ attempt <= retryAttempts)
  /\ [][RetryMeasure' < RetryMeasure]_vars

C2_Witness ==
  /\ rpc = "returned"
  /\ retryAttempts = 2
  /\ rawCalls = retryAttempts + 1

\* C3: a raw call that fails with an error withRetry's test finds not
\* retryable is the last raw call: withRetry throws that error at once, so a
\* first such failure means exactly one raw call, whatever retryAttempts is.
C3_FatalStopsAtOnce ==
  \A i \in 1..Len(outcomes) :
    outcomes[i] = "fatal" =>
      /\ i = Len(outcomes)
      /\ rawCalls = i
      /\ rpc = "thrown"
      /\ thrown = "lastError"
      /\ ~isRetryableError(lastError)

C3_Witness ==
  /\ outcomes = <<"fatal">>
  /\ rawCalls = 1
  /\ retryAttempts = 3
  /\ rpc = "thrown"
  /\ lastError.status = 401

\* C4: after k <= retryAttempts retryable failures the loop is still going,
\* and a success is the last raw call: withRetry returns it after exactly
\* k + 1 raw calls and k backoff sleeps.
C4_SuccessReturnsAtOnce ==
  /\ (AllRetryable(outcomes) /\ Len(outcomes) <= retryAttempts)
        => rpc \in {"call", "wait"}
  /\ \A i \in 1..Len(outcomes) :
       outcomes[i] = "ok" =>
         /\ i = Len(outcomes)
         /\ rpc = "returned"
         /\ rawCalls = i
         /\ waits = i - 1
         /\ AllRetryable(SubSeq(outcomes, 1, i - 1))

\* HTTP 429, HTTP 429, success with retryAttempts = 3.
C4_Witness ==
  /\ rpc = "returned"
  /\ retryAttempts = 3
  /\ rawCalls = 3
  /\ waits = 2
  /\ lastError.status = 429

\* What the Error Classifier says of an error: the retryable flag of the
\* classified error it returns, as a property or in its context.
ClassifierMarksRetryable(error) ==
  LET res == classifyError(error) IN
    /\ ~res.threw
    /\ (res.err.retryable = "true" \/ res.err.context.retryable = "true")

\* C9: when attempts remain after a failed raw call, withRetry retries if and
\* only if classifyError marks that error retryable.
C9_RetryIffClassifierRetryable ==
  (rpc \in {"wait", "thrown"} /\ lastError # NoError /\ attempt < retryAttempts) =>
     ((rpc = "wait") <=> ClassifierMarksRetryable(lastError))

\* C10: after a failed raw call of attempt index i (the first is 0) withRetry
\* goes on to a backoff sleep and the next attempt if and only if
\* i < retryAttempts and the error is retryable; otherwise it throws.
C10_RetryIffAttemptsLeftAndRetryable ==
  /\ [](rpc = "call" => attempt = rawCalls)
  /\ [][ (rpc = "call" /\ rpc' # "returned") =>
           /\ rpc' \in {"wait", "thrown"}
           /\ (rpc' = "wait") <=>
                (attempt < retryAttempts /\ isRetryableError(lastError'))
           /\ (rpc' = "wait" => attempt' = attempt) ]_vars
  /\ [][ rpc = "wait" => (rpc' = "call" /\ attempt' = attempt + 1) ]_vars

C10_Witness ==
  /\ rpc = "wait"
  /\ attempt = 1
  /\ retryAttempts = 2

----------------------------------------------------------------------------
(* Properties of classifyError, checked under ClassifySpec *)

\* The error kind of a classified error.
Kind(e) ==
  CASE e.context.code = "RATE_LIMIT_EXCEEDED" -> "RateLimited"
    [] e.context.code = "SERVICE_ERROR" -> "ServerError"
    [] e.code = "AUTH_ERROR" -> "AuthError"
    [] e.cls = "ValidationError" -> "Validation"
    [] e.context.code = "TIMEOUT" -> "Timeout"
    [] e.cls = "NotFoundError" -> "NotFound"
    [] OTHER -> "Unknown"

KindOfStatus(s) ==
  CASE s = 429 -> "RateLimited"
    [] s = 401 -> "AuthError"
    [] OTHER -> "ServerError"

\* C7: an error that carries status 429, 401 or one from 500 up is classified
\* by that status alone, whatever its name and message.
C7_StatusDecides ==
  (cpc = "done" /\ cErr.app = ""
     /\ (cErr.status = 429 \/ cErr.status = 401 \/ cErr.status >= 500)) =>
        /\ ~cRes.threw
        /\ Kind(cRes.err) = KindOfStatus(cErr.status)

\* C8: classifyError returns a classified error for every raw error; it
\* never throws.
C8_Total == cpc = "done" => ~cRes.threw

----------------------------------------------------------------------------
(* Properties of the timeout guard, checked under HandlerSpec and
   HandlerLiveSpec *)

TimeoutMessage(q) == IF q.kind = "chat" THEN MsgChatTimedOut ELSE MsgGenTimedOut

\* C5: whatever the order of the operation's completion and the timer's
\* firing, the handler observes one of them and sends one response; the one
\* that arrives later changes neither the response nor the session store,
\* and a request whose timer won never writes a result to the store.
C5_OneOutcomeObserved ==
  /\ [](\A r \in Reqs :
          /\ req[r].responses <= 1
          /\ req[r].storeWrites <= 1
          /\ (req[r].observed # "none" => req[r].responses = 1)
          /\ (req[r].observed = "timer" =>
                /\ req[r].storeWrites = 0
                /\ req[r].response.status = "error"
                /\ req[r].response.error = TimeoutMessage(req[r])))
  /\ [][\A r \in Reqs :
          req[r].observed # "none" =>
            /\ req'[r].observed = req[r].observed
            /\ req'[r].responses = req[r].responses
            /\ req'[r].response = req[r].response
            /\ req'[r].storeWrites = req[r].storeWrites
            /\ (req'[r] # req[r] => UNCHANGED storeVars)]_vars

\* Both orders: r1's operation settles after its timer won, r2's timer fires
\* after its operation won and the result was stored.
C5_Witness ==
  /\ req["r1"].observed = "timer"
  /\ req["r1"].op = "settled"
  /\ req["r2"].observed = "operation"
  /\ req["r2"].timer = "fired"
  /\ req["r2"].storeWrites = 1

\* C6: a request that awaits the race gets its response; if the operation
\* has not completed by then, the response is the timeout failure.
C6_HangingCallTimesOut ==
  \A r \in Reqs :
    (req[r].pc = "racing") ~>
       (/\ req[r].responses = 1
        /\ (req[r].op = "running" =>
              /\ req[r].observed = "timer"
              /\ req[r].response.status = "error"
              /\ req[r].response.error = TimeoutMessage(req[r])))

C6_Witness ==
  \E r \in Reqs :
    /\ req[r].kind = "chat"
    /\ req[r].pc = "done"
    /\ req[r].op = "running"
    /\ req[r].observed = "timer"
    /\ req[r].responses = 1

----------------------------------------------------------------------------
(* Properties of the backoff, checked under Spec *)

\* C18: the delay of the sleep before retry i (the sleep that follows the
\* failed attempt of index i) is at least retryDelay * 2^i and at most
\* retryDelay * 2^i * 1.2, whatever Math.random() returned: the jitter is
\* added and is never negative.
C18_DelayWithinJitter ==
  rpc = "wait" =>
    /\ delay >= retryDelay * Pow2(attempt) * DelayScale
    /\ JitterDivisor * delay <=
         retryDelay * Pow2(attempt) * DelayScale * (JitterDivisor + 1)

\* The sleep before the second retry, with a jitter above zero.
C18_Witness ==
  /\ rpc = "wait"
  /\ attempt = 1
  /\ retryDelay > 0
  /\ delay > retryDelay * Pow2(attempt) * DelayScale

\* C19: withRetry sleeps only after a failed raw call that is going to be
\* retried: never before the first raw call and never after the last one,
\* so when it has returned or thrown the number of sleeps is the number of
\* raw calls minus one.
C19_WaitsOnlyBetweenCalls ==
  /\ (rawCalls = 0 => waits = 0 /\ rpc = "call")
  /\ (rpc = "call" => waits = rawCalls)
  /\ (rpc = "wait" =>
        /\ waits = rawCalls - 1
        /\ lastError # NoError
        /\ isRetryableError(lastError)
        /\ attempt < retryAttempts)
  /\ (rpc \in {"returned", "thrown"} => waits = rawCalls - 1)

\* A run that failed, slept and called again twice before it ended.
C19_Witness ==
  /\ rpc \in {"returned", "thrown"}
  /\ rawCalls = 3
  /\ waits = 2

----------------------------------------------------------------------------
(* Properties of createChatCompletion, checked under CompletionSpec *)

\* What errorMiddleware makes of the error createChatCompletion threw.
Reported == errorMiddleware(ccErr, nodeEnv)

\* C11: a first raw call that fails with status 401 is the only raw call,
\* whatever the error's message and type, and the failure that results is
\* classified as the authentication error, not marked retryable.
C11_AuthFailsOnce ==
  (rawCalls = 1 /\ lastError.status = 401) =>
     /\ rpc # "wait"
     /\ (ccpc = "thrown" =>
           /\ ~classifyError(ccErr).threw
           /\ Kind(classifyError(ccErr).err) = "AuthError"
           /\ classifyError(ccErr).err.retryable # "true")

\* C15: a first raw call that fails with status 400 is not retried, and the
\* failure that results is classified as a validation error, not marked
\* retryable, reported with HTTP status 400.
C15_BadRequestIsValidation ==
  (rawCalls = 1 /\ lastError.status = 400) =>
     /\ rpc # "wait"
     /\ (ccpc = "thrown" =>
           /\ ~classifyError(ccErr).threw
           /\ Kind(classifyError(ccErr).err) = "Validation"
           /\ classifyError(ccErr).err.retryable # "true"
           /\ Reported.statusCode = 400)

\* C16: createChatCompletion ends by returning the response withRetry
\* returned or by throwing an error it constructed itself: the
\* client-unavailable error, or the enhanced error whose message is the
\* formatted one and whose originalError is what was caught.  What the raw
\* call threw never reaches the caller as it is.
C16_NoRawErrorEscapes ==
  /\ (ccpc = "returned" => rpc = "returned" /\ ccErr = NoError)
  /\ (ccpc = "thrown" =>
        /\ ccErr \notin OperationErrors
        /\ \/ (ccErr = ClientUnavailable /\ rawCalls = 0)
           \/ (rpc = "thrown" /\ ccErr = Enhanced(Caught, nodeEnv))
           \/ (rpc = "returned" /\ ccErr = Enhanced(TypeErrorValue, nodeEnv)))
  /\ (rpc \in {"returned", "thrown"} => ccpc # "idle")

\* Each way out was taken: after retries the raw call's error was wrapped.
C16_Witness ==
  /\ ccpc = "thrown"
  /\ rpc = "thrown"
  /\ rawCalls >= 2
  /\ lastError \in OperationErrors
  /\ ccErr.hasOrig
  /\ nodeEnv = "development"

----------------------------------------------------------------------------
(* Properties of errorMiddleware's response, checked under ClassifySpec *)

RetryableKinds == {"RateLimited", "ServerError", "Timeout"}

\* C13: the error classifyError returns has a boolean retryable property,
\* true for the rate-limit, server-error and timeout kinds and false for the
\* others, and the body errorMiddleware sends has the same retryable value.
C13_RetryableAlwaysSet ==
  (cpc = "done" /\ ~cRes.threw) =>
     /\ cRes.err.retryable =
          (IF Kind(cRes.err) \in RetryableKinds THEN "true" ELSE "false")
     /\ eResp.body.retryable = cRes.err.retryable

\* The response to an error classified as the authentication error.
AuthFailureReported == cpc = "done" /\ ~cRes.threw /\ Kind(cRes.err) = "AuthError"

----------------------------------------------------------------------------
(* Properties of the responses to failures, checked under HandlerSpec *)

\* C12: a chat request whose timer won the race fails with an error that is
\* classified as a timeout, and the result reported to the client has
\* retryable = true.
C12_TimeoutIsRetryable ==
  \A r \in Reqs :
    (req[r].kind = "chat" /\ req[r].observed = "timer") =>
       /\ Kind(classifyError(TimeoutError(req[r])).err) = "Timeout"
       /\ req[r].response.retryable = TRUE

\* C14: the HTTP status of a failure response is the one of the error's
\* kind on every handler path; for the timeout kind, which is what a request
\* whose timer won the race failed with, it is 503 or 504.
C14_StatusFromKind ==
  \A r \in Reqs :
    req[r].observed = "timer" => req[r].response.code \in {503, 504}

----------------------------------------------------------------------------
(* Properties of the session store, checked under HandlerSpec *)

\* What the store holds for session s: each of the four maps' value for the
\* key, <<>> when the map has no such key.
EntryOf(store, s) ==
  [conversation |-> IF s \in DOMAIN store.conversations
                      THEN <<store.conversations[s]>> ELSE <<>>,
   phase |-> IF s \in DOMAIN store.phases THEN <<store.phases[s]>> ELSE <<>>,
   language |-> IF s \in DOMAIN store.languages THEN <<store.languages[s]>> ELSE <<>>,
   lastActivity |-> IF s \in DOMAIN store.lastActivity
                      THEN <<store.lastActivity[s]>> ELSE <<>>]

\* C20: in every interleaving of requests on different sessions, a step of
\* a request on one session leaves the stored conversation, phase, language
\* and lastActivity of every other session as they were.
C20_OtherSessionUntouched ==
  [][\A r \in Reqs : \A s \in Sessions :
       (req'[r] # req[r] /\ req'[r].session # s) =>
          EntryOf(Store, s)' = EntryOf(Store, s)]_vars

\* Session B was stored at an earlier time, with a conversation of its own;
\* later a chat request on A wrote A's entry.
C20_Witness ==
  /\ "B" \in DOMAIN conversations
  /\ conversations["B"] # <<>>
  /\ "A" \in DOMAIN lastActivity
  /\ lastActivity["A"] > lastActivity["B"]
  /\ \E r \in Reqs :
       /\ req[r].session = "A"
       /\ req[r].kind = "chat"
       /\ req[r].storeWrites = 1

----------------------------------------------------------------------------
(* Further properties of createChatCompletion, checked under CompletionSpec *)

\* C22: when createChatCompletion fails after raw calls were made, what
\* withRetry throws is the error of the last raw call, and the error
\* createChatCompletion throws is built from that one, not from the error of
\* an earlier attempt.
C22_LastErrorThrown ==
  /\ ((rpc = "thrown" /\ thrown = "lastError") =>
        /\ rawError # NoError
        /\ lastError = rawError)
  /\ ((ccpc = "thrown" /\ rpc = "thrown" /\ thrown = "lastError") =>
        /\ ccErr = Enhanced(rawError, nodeEnv)
        /\ ccErr.status = rawError.status
        /\ ccErr.origName = rawError.name)

\* Three raw calls failed, the last one with an error of another sort than
\* the first, and createChatCompletion threw.
C22_Witness ==
  /\ ccpc = "thrown"
  /\ rpc = "thrown"
  /\ Len(outcomes) = 3
  /\ outcomes[1] = "retryable"
  /\ outcomes[3] = "fatal"
  /\ rawError.status = 401

----------------------------------------------------------------------------
(* Properties of concurrent calls, checked under ConcurrentSpec *)

\* The steps call c can take.
CallStep(c) ==
  \/ CallBegin(c)
  \/ CallSucceeds(c)
  \/ \E error \in ConcurrentErrors : CallFails(c, error)
  \/ CallBackoffElapses(c)

\* C21: two calls of createChatCompletion that run interleaved share no
\* state that changes their course: a step of one call leaves the other
\* call's locals as they are, a call that has ended made the raw calls and
\* has the outcome withRetry gives by itself on the same raw-call outcomes,
\* and while one call sleeps between retries the other can take its step.
C21_CallsIndependent ==
  /\ [](\A c \in Calls :
          /\ calls[c].rawCalls = Len(calls[c].outcomes)
          /\ (calls[c].pc \in {"returned", "thrown"} /\ calls[c].rawCalls > 0) =>
                /\ SoloFrom(calls[c].outcomes, retryAttempts, 0) =
                     [pc |-> calls[c].pc, rawCalls |-> calls[c].rawCalls]
                /\ calls[c].waits = calls[c].rawCalls - 1
          /\ \A d \in Calls \ {c} :
                (calls[c].pc = "wait" /\ calls[d].pc \in {"idle", "call", "wait"}) =>
                   ENABLED CallStep(d))
  /\ [][\A c \in Calls :
          calls'[c] # calls[c] => \A d \in Calls \ {c} : calls'[d] = calls[d]]_vars

\* One call ended after three raw calls while the other, begun before it,
\* is asleep between its retries.
C21_Witness ==
  /\ calls["c1"].pc = "thrown"
  /\ calls["c1"].rawCalls = 3
  /\ calls["c2"].pc = "wait"
  /\ calls["c2"].rawCalls = 1

\* C23: a raw call is made only with a constructed client.  With no handle
\* createChatCompletion and checkAvailability try to construct the client;
\* when that fails the handle stays null, no raw call is made,
\* createChatCompletion throws the client-unavailable error and
\* checkAvailability returns false.  A handle once constructed stays.
C23_ClientHandleLifecycle ==
  /\ [](/\ \A c \in Calls :
             /\ (calls[c].rawCalls > 0 \/ calls[c].pc \in {"call", "wait", "returned"})
                   => openai = "client"
             /\ (openai = "null" /\ calls[c].pc # "idle") =>
                   /\ calls[c].pc = "thrown"
                   /\ calls[c].err = ClientUnavailable
                   /\ calls[c].rawCalls = 0
             /\ (calls[c].err = ClientUnavailable => openai = "null")
        /\ (openai = "null" /\ availability # "none") => availability = "false")
  /\ [][openai = "client" => openai' = "client"]_vars

\* Without an API key: both calls of createChatCompletion threw the
\* client-unavailable error and checkAvailability returned false; the handle
\* is still null.
C23_Witness ==
  /\ openai = "null"
  /\ \A c \in Calls : calls[c].pc = "thrown" /\ calls[c].err = ClientUnavailable
  /\ availability = "false"

----------------------------------------------------------------------------
(* Properties of the browser's retry loops, checked under FetchSpec and
   ApiSpec *)

\* C26: fetchWithRetry calls fetchWithTimeout at most maxRetries + 1 times;
\* a failure with a status from 400 to 499 is thrown at once, with no sleep
\* and no further attempt; every other failure is followed by a sleep and
\* another attempt until maxRetries + 1 attempts have failed, and then the
\* error of the last attempt is thrown.
C26_FetchRetryBounded ==
  /\ fetchState.calls <= fetchState.maxRetries + 1
  /\ (fetchState.pc \in {"wait", "thrown"} =>
        /\ fetchState.err # NoBrowserError
        /\ fetchState.retries = fetchState.calls)
  /\ (fetchState.pc = "wait" =>
        /\ ~IsClientError(fetchState.err)
        /\ fetchState.calls <= fetchState.maxRetries)
  /\ (fetchState.pc = "thrown" =>
        IF IsClientError(fetchState.err) THEN TRUE
        ELSE fetchState.calls = fetchState.maxRetries + 1)
  /\ (fetchState.pc = "returned" => fetchState.err = NoBrowserError)

\* All four attempts failed with a server error and the last was thrown.
C26_Witness ==
  /\ fetchState.pc = "thrown"
  /\ fetchState.maxRetries = 3
  /\ fetchState.calls = 4
  /\ fetchState.err.status = 503

\* The kinds of failure callServerAPI is to retry.
ApiRetriedKinds == {"server", "network", "timeout"}

\* C27: callServerAPI retries an attempt that failed by a server error, a
\* network error or a timeout, up to 3 retries: it throws such a failure
\* only when the retries are used up, and an attempt whose timer won the
\* race is followed by another attempt.
C27_ApiRetriesTimeouts ==
  /\ apiState.retryCount <= ApiMaxRetries
  /\ apiState.attempts <= ApiMaxRetries + 1
  /\ (/\ apiState.pc = "thrown"
      /\ apiState.failures[Len(apiState.failures)] \in ApiRetriedKinds)
       => apiState.retryCount = ApiMaxRetries

----------------------------------------------------------------------------
(* Properties of the session store, checked under SessionSpec *)

\* A step of the sweep: of the actions of SessionSpec only the sweep changes
\* the store while the clock and every request stay as they are.
SweepStep == req' = req /\ now' = now

\* The entry of the session in the map is the same before and after the step.
SameEntry(map, mapAfter, s) ==
  /\ (s \in DOMAIN map) = (s \in DOMAIN mapAfter)
  /\ s \in DOMAIN map => mapAfter[s] = map[s]

\* C25: a run of the sweep deletes from all four maps the entries of every
\* session whose last activity is more than 24 hours before the run, and
\* leaves the entries of every other session as they are, a session whose
\* last activity is exactly 24 hours old included.
C25_SweepRemovesIdleOnly ==
  [][SweepStep =>
       \A s \in Sessions :
         IF s \in DOMAIN lastActivity /\ now - lastActivity[s] > IdleTimeout
           THEN /\ s \notin DOMAIN conversations'
                /\ s \notin DOMAIN phases'
                /\ s \notin DOMAIN languages'
                /\ s \notin DOMAIN lastActivity'
           ELSE /\ SameEntry(conversations, conversations', s)
                /\ SameEntry(phases, phases', s)
                /\ SameEntry(languages, languages', s)
                /\ SameEntry(lastActivity, lastActivity', s)]_vars

\* A sweep has removed session A, whose language a request had stored (only
\* the sweep deletes a language), and has kept session B, which is idle for
\* exactly 24 hours.
C25_Witness ==
  /\ \E r \in Reqs : /\ req[r].kind = "setLanguage"
                     /\ req[r].session = "A"
                     /\ req[r].storeWrites = 1
  /\ "A" \notin DOMAIN languages
  /\ "A" \notin DOMAIN conversations
  /\ "B" \in DOMAIN languages
  /\ "B" \in DOMAIN lastActivity
  /\ now - lastActivity["B"] = IdleTimeout

\* C28: every session with an entry in conversations, phases or languages
\* has an entry in lastActivity, so that the sweep, which goes through
\* lastActivity, reaches every stored session.
C28_EveryStoredSessionHasActivity ==
  \A s \in (DOMAIN conversations \cup DOMAIN phases \cup DOMAIN languages) :
    s \in DOMAIN lastActivity

\* C24: clearSession deletes the session's conversation, phase and last
\* activity and keeps its language, and what the next request of the session
\* reads as the session's language (getSessionData) is that kept language.
C24_LanguageSurvivesClear ==
  \A r \in Reqs :
    LET s == req[r].session IN
      (/\ req[r].kind = "clearSession"
       /\ req[r].pc = "done"
       /\ s \notin DOMAIN conversations
       /\ s \in DOMAIN languages)
        => /\ s \notin DOMAIN phases
           /\ s \notin DOMAIN lastActivity
           /\ LanguageGet(StoreAfterGet(Store, s, now).languages, s) = languages[s]

\* The entry of the session in the map, if there is one, is still there and
\* the same after the step.
KeptEntry(map, mapAfter, s) ==
  s \in DOMAIN map => (s \in DOMAIN mapAfter /\ mapAfter[s] = map[s])

\* The handler of chat request r reads the session: its step from the start.
ChatReads(r) == req[r].pc = "new" /\ req'[r].kind = "chat"

\* The chat request r ends with an error response of the processing or of
\* the timeout.
ChatEndsInError(r) ==
  /\ req[r].kind = "chat"
  /\ req[r].pc # "done"
  /\ req'[r].pc = "done"
  /\ req'[r].response.status = "error"

\* C29: a chat request that ends in an error changes no stored conversation,
\* phase or language: its first step, which is the same whatever the end of
\* the request, only creates entries a session lacks and sets lastActivity,
\* also with newChat or a selected language, and its last step stores
\* nothing.
C29_FailedChatKeepsSession ==
  [][\A r \in Reqs :
       /\ ChatReads(r) =>
            \A s \in Sessions : /\ KeptEntry(conversations, conversations', s)
                                /\ KeptEntry(phases, phases', s)
                                /\ KeptEntry(languages, languages', s)
       /\ ChatEndsInError(r) =>
            /\ UNCHANGED storeVars
            /\ req'[r].storeWrites = 0]_vars

\* C30: when a chat request finishes while the session's stored language is
\* one that setLanguage stored after the chat request read the session, the
\* stored language is the same after the chat request's update.
C30_ChatKeepsLaterLanguage ==
  [][\A r \in Reqs, r2 \in Reqs :
       LET s == req[r].session IN
         (/\ req[r].kind = "chat"
          /\ req[r].pc = "racing"
          /\ req'[r].pc = "done"
          /\ req[r2].kind = "setLanguage"
          /\ req[r2].storeWrites = 1
          /\ req[r2].session = s
          /\ s \in DOMAIN languages
          /\ languages[s] = req[r2].curLang
          /\ req[r].curLang # languages[s])
           => (s \in DOMAIN languages' /\ languages'[s] = languages[s])]_vars

====
